---- MODULE Spec2Model ----
(***************************************************************************)
(* Model of the tick-side core of the server:                              *)
(*   - the chunk -> entities spatial index (ChunkEntities) and the system  *)
(*     that maintains it once per tick (update_chunk_entities);            *)
(*   - the Server object: the new-player channel fed by the Listener, the  *)
(*     client registry, and the broadcast operations;                      *)
(*   - the HotbarSlot component and the join message VanillaSession::join  *)
(*     builds, with its hashed seed.                                       *)
(***************************************************************************)
EXTENDS Integers, Sequences, FiniteSets, TLC

(***************************************************************************)
(* Bounds of the model.                                                    *)
(***************************************************************************)
NumEntities == 2

\* Options::max_players, the limit of the shared player counter.
MaxPlayers == 5

\* flume::bounded(4): capacity of the new-player channel.
Capacity == 4

\* Number of client ids the chunk subscriptions range over.
NumSubscribers == 3

\* Last reading of the clock.
MaxTime == 3

\* Largest usize handed to HotbarSlot::new and HotbarSlot::set.
MaxSlotId == 10

Entities == 1..NumEntities

\* Block positions the simulation may report (x, z), chosen on both sides of
\* chunk borders, negative coordinates included.
Positions == { <<-1, 0>>, <<0, 0>>, <<15, 15>>, <<16, -16>> }

\* Side length of a chunk in blocks.
ChunkWidth == 16

\* Position::chunk(): floor division of each coordinate by the chunk width.
chunk(position) == << position[1] \div ChunkWidth, position[2] \div ChunkWidth >>

Chunks == { chunk(p) : p \in Positions }

\* Option<ChunkPosition>
None == << >>
Some(c) == << c >>

VARIABLES
    \* ---- world model (entity store) ----
    alive,          \* entity -> "unborn" | "live" | "gone"
    hasPosition,    \* entity -> BOOLEAN: the entity carries a Position component
    position,       \* entity -> Positions: its Position component
    chunkPosition,  \* entity -> Option<ChunkPosition>: cached ChunkPosition component
    createEvent,    \* entity -> BOOLEAN: EntityCreateEvent attached this tick
    removeEvent,    \* entity -> BOOLEAN: EntityRemoveEvent attached this tick
    phase,          \* "sim" before the index maintenance of the tick, "maintained" after
    events,         \* ChunkCrossEvents the last maintenance run attached to entities
    \* ---- ChunkEntities ----
    chunk_entities, \* chunk -> Vec<Entity>; an absent key reads as the empty slice
    \* ---- Listener (asynchronous context) ----
    pending,        \* Option<uuid>: a handshake is done and its send is in progress
    closed,         \* the Listener has dropped the sending side of the channel
    sent,           \* number of descriptors enqueued so far (their serial numbers)
    \* ---- Server ----
    new_players,    \* contents of the channel behind Server::new_players
    player_count,   \* PlayerCount, shared by the Server and the Listener
    clients,        \* Clients: ClientId -> Client, defined on the registered ids
    \* ---- one call of accept_new_players ----
    pc,             \* "idle" | "draining": the tick context is inside the drain loop
    accepted,       \* the local Vec `clients` the call collects its ids in
    returned,       \* the Vec the last call returned
    liveAtCall,     \* history: the ids registered when the running call started
    created,        \* history: serials of the descriptors turned into clients, in order
    \* ---- broadcasts ----
    chunk_subscriptions, \* ChunkSubscriptions: DimensionChunkPosition -> set of ClientId
    last_broadcast, \* Option: the broadcast_nearby_with[_mut] call that has just run
    invoked,        \* the client ids that call handed to its callback, in order
    \* ---- keep-alive ----
    now,            \* the reading of the monotonic clock behind Instant::now()
    last_keepalive_time, \* Server::last_keepalive_time
    \* ---- HotbarSlot ----
    hotbar,         \* HotbarSlot.0
    set_call,       \* Option: the last call of HotbarSlot::set, its argument and result
    \* ---- VanillaSession::join ----
    join_args,      \* Option: the arguments of the last call of join
    join_game,      \* Option: the JoinGame packet that call built
    earlier_join    \* Option: seed and hashed seed of the call before it

worldVars == << alive, hasPosition, position, chunkPosition, createEvent, removeEvent,
               phase, events >>
indexVars == << worldVars, chunk_entities >>
listenerVars == << pending, closed, sent >>
acceptVars == << pc, accepted, returned, liveAtCall, created >>
broadcastVars == << chunk_subscriptions, last_broadcast, invoked >>
serverVars == << new_players, player_count, clients, acceptVars >>
keepaliveVars == << now, last_keepalive_time >>
hotbarVars == << hotbar, set_call >>
sessionVars == << join_args, join_game, earlier_join >>
otherVars == << keepaliveVars, hotbarVars, sessionVars >>
vars == << indexVars, listenerVars, serverVars, broadcastVars, otherVars >>

Range(s) == { s[i] : i \in DOMAIN s }

(***************************************************************************)
(* utils::vec_remove_item: swap-removes the first element equal to item.   *)
(***************************************************************************)
vec_remove_item(vec, item) ==
    IF \E i \in DOMAIN vec : vec[i] = item
    THEN LET idx  == CHOOSE i \in DOMAIN vec :
                        /\ vec[i] = item
                        /\ \A j \in DOMAIN vec : vec[j] = item => i <= j
             last == Len(vec)
         IN  [ j \in 1..(last - 1) |-> IF j = idx THEN vec[last] ELSE vec[j] ]
    ELSE vec

(***************************************************************************)
(* ChunkEntities                                                           *)
(***************************************************************************)
entities_in_chunk(entities, c) == entities[c]

\* Variant of update with the two chunks taken the wrong way round.
update_chunks_swapped(entities, entity, old_chunk, new_chunk) ==
    LET removed == [ entities EXCEPT ![new_chunk] = vec_remove_item(@, entity) ]
    IN  IF old_chunk # None
        THEN [ removed EXCEPT ![old_chunk[1]] = Append(@, entity) ]
        ELSE [ removed EXCEPT ![new_chunk] = Append(@, entity) ]

\* Variant of update that returns at once when the chunk has not changed.
update_skips_same_chunk(entities, entity, old_chunk, new_chunk) ==
    IF old_chunk = Some(new_chunk)
    THEN entities
    ELSE LET removed == IF old_chunk # None
                        THEN [ entities EXCEPT ![old_chunk[1]] = vec_remove_item(@, entity) ]
                        ELSE entities
         IN  [ removed EXCEPT ![new_chunk] = Append(@, entity) ]

\* Variant of update that forgets to take the entity out of its old bucket.
update_keeps_old(entities, entity, old_chunk, new_chunk) ==
    [ entities EXCEPT ![new_chunk] = Append(@, entity) ]

update(entities, entity, old_chunk, new_chunk) ==
    LET removed == IF old_chunk # None
                   THEN [ entities EXCEPT ![old_chunk[1]] = vec_remove_item(@, entity) ]
                   ELSE entities
    IN  [ removed EXCEPT ![new_chunk] = Append(@, entity) ]

\* Variant of remove_entity that clears the whole bucket.
remove_entity_clears_bucket(entities, entity, c) ==
    [ entities EXCEPT ![c] = << >> ]

remove_entity(entities, entity, c) ==
    [ entities EXCEPT ![c] = vec_remove_item(@, entity) ]

(***************************************************************************)
(* update_chunk_entities.  Its three loops work on the record              *)
(*   g.ce : the ChunkEntities map,  g.cp : the ChunkPosition components,   *)
(*   g.ev : the ChunkCrossEvents pushed by the run.                        *)
(* Queries visit the matching entities in ascending handle order.          *)
(***************************************************************************)
\* Variant of the crossing loop that leaves the cached ChunkPosition as it was.
RECURSIVE CrossLoop_stale_cache(_, _)
CrossLoop_stale_cache(g, e) ==
    IF e > NumEntities THEN g
    ELSE IF /\ alive[e] = "live" /\ hasPosition[e] /\ g.cp[e] # None
            /\ chunk(position[e]) # g.cp[e][1]
         THEN CrossLoop_stale_cache(
                  [ g EXCEPT !.ce = update(g.ce, e, Some(g.cp[e][1]), chunk(position[e])),
                             !.ev = Append(g.ev, [ entity |-> e,
                                                   old_chunk |-> g.cp[e][1],
                                                   new_chunk |-> chunk(position[e]) ]) ],
                  e + 1)
         ELSE CrossLoop_stale_cache(g, e + 1)

RECURSIVE CrossLoop(_, _)
CrossLoop(g, e) ==
    IF e > NumEntities THEN g
    ELSE IF /\ alive[e] = "live" /\ hasPosition[e] /\ g.cp[e] # None
            /\ chunk(position[e]) # g.cp[e][1]
         THEN LET new_chunk == chunk(position[e])
                  old_chunk == g.cp[e][1]
              IN  CrossLoop([ ce |-> update(g.ce, e, Some(old_chunk), new_chunk),
                              cp |-> [ g.cp EXCEPT ![e] = Some(new_chunk) ],
                              ev |-> Append(g.ev, [ entity |-> e,
                                                    old_chunk |-> old_chunk,
                                                    new_chunk |-> new_chunk ]) ],
                            e + 1)
         ELSE CrossLoop(g, e + 1)

RECURSIVE CreateLoop(_, _)
CreateLoop(g, e) ==
    IF e > NumEntities THEN g
    ELSE IF alive[e] = "live" /\ createEvent[e] /\ hasPosition[e]
         THEN LET c == chunk(position[e])
              IN  CreateLoop([ g EXCEPT !.ce = update(g.ce, e, None, c),
                                        !.cp = [ g.cp EXCEPT ![e] = Some(c) ] ],
                             e + 1)
         ELSE CreateLoop(g, e + 1)

RECURSIVE RemoveLoop(_, _)
RemoveLoop(g, e) ==
    IF e > NumEntities THEN g
    ELSE IF alive[e] = "live" /\ removeEvent[e] /\ g.cp[e] # None
         THEN RemoveLoop([ g EXCEPT !.ce = remove_entity(g.ce, e, g.cp[e][1]) ],
                         e + 1)
         ELSE RemoveLoop(g, e + 1)

\* Variant of the system that handles removals before creations.
update_chunk_entities_removal_first(g) ==
    CreateLoop(RemoveLoop(CrossLoop(g, 1), 1), 1)

update_chunk_entities(g) ==
    RemoveLoop(CreateLoop(CrossLoop(g, 1), 1), 1)

(***************************************************************************)
(* World model: what the simulation does to entities between two runs of   *)
(* the index maintenance.                                                  *)
(***************************************************************************)
\* An entity is spawned, with or without a Position; it gets its creation event.
Spawn(e, withPos, p) ==
    /\ phase = "sim"
    /\ alive[e] = "unborn"
    /\ alive' = [ alive EXCEPT ![e] = "live" ]
    /\ hasPosition' = [ hasPosition EXCEPT ![e] = withPos ]
    /\ position' = [ position EXCEPT ![e] = IF withPos THEN p ELSE <<0, 0>> ]
    /\ createEvent' = [ createEvent EXCEPT ![e] = TRUE ]
    /\ UNCHANGED << chunkPosition, removeEvent, phase, events, chunk_entities,
                    listenerVars, serverVars, broadcastVars, otherVars >>

\* A position-mutating system writes a new Position.
Move(e, p) ==
    /\ phase = "sim"
    /\ alive[e] = "live"
    /\ hasPosition[e]
    /\ position[e] # p
    /\ position' = [ position EXCEPT ![e] = p ]
    /\ UNCHANGED << alive, hasPosition, chunkPosition, createEvent, removeEvent,
                    phase, events, chunk_entities, listenerVars, serverVars, broadcastVars, otherVars >>

\* The entity is scheduled for removal: it gets its removal event.
Remove(e) ==
    /\ phase = "sim"
    /\ alive[e] = "live"
    /\ ~removeEvent[e]
    /\ removeEvent' = [ removeEvent EXCEPT ![e] = TRUE ]
    /\ UNCHANGED << alive, hasPosition, position, chunkPosition, createEvent,
                    phase, events, chunk_entities, listenerVars, serverVars, broadcastVars, otherVars >>

\* The system update_chunk_entities runs.
UpdateChunkEntities ==
    /\ phase = "sim"
    /\ LET g == update_chunk_entities([ ce |-> chunk_entities,
                                        cp |-> chunkPosition,
                                        ev |-> << >> ])
       IN  /\ chunk_entities' = g.ce
           /\ chunkPosition' = g.cp
           /\ events' = g.ev
    /\ phase' = "maintained"
    /\ UNCHANGED << alive, hasPosition, position, createEvent, removeEvent,
                    listenerVars, serverVars, broadcastVars, otherVars >>

\* The entity leaves the world at the end of this tick, with all its components.
Despawned(e) == alive[e] = "live" /\ removeEvent[e]

\* End of the tick: events are dropped, entities with a removal event are despawned.
EndTick ==
    /\ phase = "maintained"
    /\ alive' = [ e \in Entities |-> IF Despawned(e) THEN "gone" ELSE alive[e] ]
    /\ hasPosition' = [ e \in Entities |-> ~Despawned(e) /\ hasPosition[e] ]
    /\ position' = [ e \in Entities |-> IF Despawned(e) THEN <<0, 0>> ELSE position[e] ]
    /\ chunkPosition' = [ e \in Entities |-> IF Despawned(e) THEN None
                                                             ELSE chunkPosition[e] ]
    /\ createEvent' = [ e \in Entities |-> FALSE ]
    /\ removeEvent' = [ e \in Entities |-> FALSE ]
    /\ events' = << >>
    /\ phase' = "sim"
    /\ UNCHANGED << chunk_entities, listenerVars, serverVars, broadcastVars, otherVars >>

IndexInit ==
    /\ alive = [ e \in Entities |-> "unborn" ]
    /\ hasPosition = [ e \in Entities |-> FALSE ]
    /\ position = [ e \in Entities |-> <<0, 0>> ]
    /\ chunkPosition = [ e \in Entities |-> None ]
    /\ createEvent = [ e \in Entities |-> FALSE ]
    /\ removeEvent = [ e \in Entities |-> FALSE ]
    /\ phase = "sim"
    /\ events = << >>
    /\ chunk_entities = [ c \in Chunks |-> << >> ]

IndexNext ==
    \/ \E e \in Entities, withPos \in BOOLEAN, p \in Positions : Spawn(e, withPos, p)
    \/ \E e \in Entities, p \in Positions : Move(e, p)
    \/ \E e \in Entities : Remove(e)
    \/ UpdateChunkEntities
    \/ EndTick


(***************************************************************************)
(* Clients, the registry of connections (ClientId -> Client).              *)
(***************************************************************************)
ClientIds == 0..(MaxPlayers - 1)

Uuids == { "u1", "u2" }

\* Client::new: the connection made from a descriptor; n stands for what tells two
\* descriptors of one uuid apart (username, transport handle).
Client_new(player) ==
    [ uuid |-> player.uuid, n |-> player.n, disconnected |-> FALSE ]

\* Client::disconnect: the client is sent the notice and marked disconnected;
\* it stays in the registry until remove_client is called for it.
disconnect(client) == [ client EXCEPT !.disconnected = TRUE ]

\* Clients::insert hands out an id no registered client has: the lowest one.
next_id(cl) == CHOOSE id \in ClientIds \ DOMAIN cl :
                   \A other \in ClientIds \ DOMAIN cl : id <= other

insert(cl, id, client) == (id :> client) @@ cl

remove(cl, id) == [ i \in DOMAIN cl \ {id} |-> cl[i] ]

get(cl, id) == IF id \in DOMAIN cl THEN Some(cl[id]) ELSE None

\* Clients::iter_mut().find(|x| x.uuid() == uuid): the first match in id order.
find_by_uuid(cl, uuid) ==
    LET matching == { id \in DOMAIN cl : cl[id].uuid = uuid }
    IN  IF matching = {} THEN None
        ELSE Some(CHOOSE id \in matching : \A other \in matching : id <= other)

(***************************************************************************)
(* Server                                                                  *)
(***************************************************************************)
\* Variant: the channel is made with flume::unbounded().
channel_never_full(chan) == FALSE

\* The channel made by flume::bounded(4) in Server::bind takes no further item.
channel_full(chan) == Len(chan) >= Capacity

\* Variant of create_client that builds the client and forgets to register it.
create_client_not_inserted(cl, player, id) == cl

create_client(cl, player, id) == insert(cl, id, Client_new(player))

\* Variant of the loop body that tells every client of that uuid to disconnect.
accept_player_all_disconnected(cl, player, id) ==
    create_client([ i \in DOMAIN cl |-> IF cl[i].uuid = player.uuid
                                        THEN disconnect(cl[i]) ELSE cl[i] ],
                  player, id)

\* Variant of the loop body that takes the old client out of the registry.
accept_player_replaces_old(cl, player, id) ==
    LET old_client == find_by_uuid(cl, player.uuid)
        kept == IF old_client # None THEN remove(cl, old_client[1]) ELSE cl
    IN  create_client(kept, player, id)

\* Body of the loop of accept_new_players for one descriptor; id is the ClientId
\* Clients::insert hands out.
accept_player(cl, player, id) ==
    LET old_client == find_by_uuid(cl, player.uuid)
        told == IF old_client # None
                THEN [ cl EXCEPT ![old_client[1]] = disconnect(@) ]
                ELSE cl
    IN  create_client(told, player, id)

\* Variant: the drain uses the blocking iter(), which ends only on a closed channel.
drain_ends_on_close(chan, isClosed) == chan = << >> /\ isClosed

\* try_iter() ends as soon as try_recv finds nothing, whether the channel is
\* closed or only empty.
drain_ends(chan, isClosed) == chan = << >>

\* ---- the Listener ----
\* A connection finishes its handshake: the shared player counter admits it.
ListenerHandshake(u) ==
    /\ ~closed
    /\ pending = None
    /\ player_count < MaxPlayers
    /\ pending' = Some(u)
    /\ player_count' = player_count + 1
    /\ UNCHANGED << otherVars, indexVars, broadcastVars, closed, sent, new_players, clients,
                    acceptVars >>

\* The pending send completes; it waits as long as the channel is full.
ListenerSend ==
    /\ ~closed
    /\ pending # None
    /\ ~channel_full(new_players)
    /\ new_players' = Append(new_players, [ uuid |-> pending[1], n |-> sent + 1 ])
    /\ sent' = sent + 1
    /\ pending' = None
    /\ UNCHANGED << otherVars, indexVars, broadcastVars, closed, player_count, clients, acceptVars >>

\* The Listener stops: the sending side is dropped, a send in progress is abandoned.
ListenerClose ==
    /\ ~closed
    /\ closed' = TRUE
    /\ pending' = None
    /\ UNCHANGED << otherVars, indexVars, broadcastVars, sent, new_players, player_count, clients,
                    acceptVars >>

\* ---- the tick context ----
\* accept_new_players is called: `let mut clients = Vec::new()`.
AcceptBegin ==
    /\ pc = "idle"
    /\ pc' = "draining"
    /\ accepted' = << >>
    /\ returned' = << >>
    /\ liveAtCall' = DOMAIN clients
    /\ UNCHANGED << otherVars, indexVars, broadcastVars, listenerVars, new_players, player_count,
                    clients, created >>

\* One turn of the loop: try_recv yields a descriptor, the loop body runs.
AcceptStep ==
    /\ pc = "draining"
    /\ ~drain_ends(new_players, closed)
    /\ new_players # << >>
    /\ LET player == Head(new_players)
           id == next_id(clients)
       IN  /\ clients' = accept_player(clients, player, id)
           /\ accepted' = Append(accepted, id)
           /\ created' = Append(created, player.n)
    /\ new_players' = Tail(new_players)
    /\ UNCHANGED << otherVars, indexVars, broadcastVars, listenerVars, player_count, pc, returned,
                    liveAtCall >>

\* try_recv yields nothing: the loop ends and the call returns its Vec.
AcceptEnd ==
    /\ pc = "draining"
    /\ drain_ends(new_players, closed)
    /\ pc' = "idle"
    /\ returned' = accepted
    /\ accepted' = << >>
    /\ liveAtCall' = {}
    /\ UNCHANGED << otherVars, indexVars, broadcastVars, listenerVars, new_players, player_count,
                    clients, created >>

\* Variant of remove_client that empties the registry.
remove_client_clears(cl, id) == << >>

\* Server::remove_client: Clients::remove(id); the removed client, if there was
\* one, is only logged and dropped.
remove_client(cl, id) == remove(cl, id)

\* remove_client(id)
RemoveClient(id) ==
    /\ pc = "idle"
    /\ clients' = remove_client(clients, id)
    /\ last_broadcast' = None
    /\ invoked' = << >>
    /\ UNCHANGED << otherVars, indexVars, listenerVars, new_players, player_count, acceptVars,
                    chunk_subscriptions >>

\* ---- chunk subscriptions and scoped broadcasts ----
SubscriberIds == 0..(NumSubscribers - 1)

Worlds == { 1, 2 }

Dimensions == { "overworld", "the_nether" }

\* DimensionChunkPosition(world, dimension, chunk)
DimensionChunkPosition(world, dimension, c) == << world, dimension, c >>

\* The keys the subscription map may hold an entry for.
SubscribedKeys ==
    { DimensionChunkPosition(1, "overworld", <<0, 0>>),
      DimensionChunkPosition(2, "overworld", <<0, 0>>) }

\* ChunkSubscriptions::subscriptions_for: the subscribed ids, none for an absent key.
subscriptions_for(subs, key) ==
    IF key \in DOMAIN subs THEN subs[key] ELSE {}

get_mut(cl, id) == IF id \in DOMAIN cl THEN Some(cl[id]) ELSE None

\* Variant of broadcast_nearby_with that calls back for every registered client.
broadcast_nearby_with_everyone(cl, subs, world, dimension, pos) ==
    LET RECURSIVE all(_, _)
        all(ids, calls) ==
            IF ids = {} THEN calls
            ELSE LET id == CHOOSE i \in ids : \A j \in ids : i <= j
                 IN  all(ids \ {id}, Append(calls, id))
    IN  all(DOMAIN cl, << >>)

\* broadcast_nearby_with: the ids of the clients the callback is invoked for, in
\* the order of the calls.
broadcast_nearby_with(cl, subs, world, dimension, pos) ==
    LET RECURSIVE visit(_, _)
        visit(ids, calls) ==
            IF ids = {} THEN calls
            ELSE LET client_id == CHOOSE i \in ids : \A j \in ids : i <= j
                 IN  visit(ids \ {client_id},
                           IF get(cl, client_id) # None
                           THEN Append(calls, client_id)
                           ELSE calls)
    IN  visit(subscriptions_for(subs, DimensionChunkPosition(world, dimension, chunk(pos))),
              << >>)

\* broadcast_nearby_with_mut: the same loop over get_mut.
broadcast_nearby_with_mut(cl, subs, world, dimension, pos) ==
    LET RECURSIVE visit_mut(_, _)
        visit_mut(ids, calls) ==
            IF ids = {} THEN calls
            ELSE LET client_id == CHOOSE i \in ids : \A j \in ids : i <= j
                 IN  visit_mut(ids \ {client_id},
                               IF get_mut(cl, client_id) # None
                               THEN Append(calls, client_id)
                               ELSE calls)
    IN  visit_mut(subscriptions_for(subs,
                                    DimensionChunkPosition(world, dimension, chunk(pos))),
                  << >>)

\* The visibility system subscribes a client id to a key ...
Subscribe(key, id) ==
    /\ pc = "idle"
    /\ id \notin chunk_subscriptions[key]
    /\ chunk_subscriptions' = [ chunk_subscriptions EXCEPT ![key] = @ \cup {id} ]
    /\ last_broadcast' = None
    /\ invoked' = << >>
    /\ UNCHANGED << otherVars, indexVars, listenerVars, serverVars >>

\* ... or drops the subscription.
Unsubscribe(key, id) ==
    /\ pc = "idle"
    /\ id \in chunk_subscriptions[key]
    /\ chunk_subscriptions' = [ chunk_subscriptions EXCEPT ![key] = @ \ {id} ]
    /\ last_broadcast' = None
    /\ invoked' = << >>
    /\ UNCHANGED << otherVars, indexVars, listenerVars, serverVars >>

BroadcastNearbyWith(world, dimension, pos) ==
    /\ pc = "idle"
    /\ invoked' = broadcast_nearby_with(clients, chunk_subscriptions,
                                        world, dimension, pos)
    /\ last_broadcast' = Some([ mut |-> FALSE, world |-> world,
                                dimension |-> dimension, position |-> pos ])
    /\ UNCHANGED << otherVars, indexVars, listenerVars, serverVars, chunk_subscriptions >>

BroadcastNearbyWithMut(world, dimension, pos) ==
    /\ pc = "idle"
    /\ invoked' = broadcast_nearby_with_mut(clients, chunk_subscriptions,
                                            world, dimension, pos)
    /\ last_broadcast' = Some([ mut |-> TRUE, world |-> world,
                                dimension |-> dimension, position |-> pos ])
    /\ UNCHANGED << otherVars, indexVars, listenerVars, serverVars, chunk_subscriptions >>

\* Variant of broadcast_with that stops after the first client.
broadcast_with_first_only(cl) ==
    IF DOMAIN cl = {} THEN << >>
    ELSE << CHOOSE i \in DOMAIN cl : \A j \in DOMAIN cl : i <= j >>

\* broadcast_with: `for client in self.clients.iter() { callback(client) }`; the
\* ids of the clients the callback is invoked for, in registry order.
broadcast_with(cl) ==
    LET RECURSIVE iter(_, _)
        iter(ids, calls) ==
            IF ids = {} THEN calls
            ELSE LET id == CHOOSE i \in ids : \A j \in ids : i <= j
                 IN  iter(ids \ {id}, Append(calls, id))
    IN  iter(DOMAIN cl, << >>)

\* Variant of broadcast_keepalive that leaves last_keepalive_time as it was.
broadcast_keepalive_no_stamp(cl, last, instant) ==
    [ invoked |-> broadcast_with(cl), last_keepalive_time |-> last ]

\* broadcast_keepalive: send_keepalive on every client through broadcast_with,
\* then `self.last_keepalive_time = Instant::now()`.
broadcast_keepalive(cl, last, instant) ==
    [ invoked |-> broadcast_with(cl), last_keepalive_time |-> instant ]

BroadcastWith ==
    /\ pc = "idle"
    /\ invoked' = broadcast_with(clients)
    /\ last_broadcast' = Some([ op |-> "broadcast_with" ])
    /\ UNCHANGED << indexVars, listenerVars, serverVars, chunk_subscriptions,
                    otherVars >>

BroadcastKeepalive ==
    /\ pc = "idle"
    /\ LET done == broadcast_keepalive(clients, last_keepalive_time, now)
       IN  /\ invoked' = done.invoked
           /\ last_keepalive_time' = done.last_keepalive_time
    /\ last_broadcast' = Some([ op |-> "broadcast_keepalive", at |-> now ])
    /\ UNCHANGED << indexVars, listenerVars, serverVars, chunk_subscriptions,
                    now, hotbarVars, sessionVars >>

\* Time passes on the monotonic clock.
ClockAdvance ==
    /\ now < MaxTime
    /\ now' = now + 1
    /\ UNCHANGED << indexVars, listenerVars, serverVars, broadcastVars,
                    last_keepalive_time, hotbarVars, sessionVars >>

BroadcastInit ==
    /\ chunk_subscriptions = [ key \in SubscribedKeys |-> {} ]
    /\ last_broadcast = None
    /\ invoked = << >>

ServerInit ==
    /\ pending = None
    /\ closed = FALSE
    /\ sent = 0
    /\ new_players = << >>
    /\ player_count = 0
    /\ clients = << >>
    /\ pc = "idle"
    /\ accepted = << >>
    /\ returned = << >>
    /\ liveAtCall = {}
    /\ created = << >>

ListenerNext ==
    \/ \E u \in Uuids : ListenerHandshake(u)
    \/ ListenerSend
    \/ ListenerClose

TickNext ==
    \/ AcceptBegin
    \/ AcceptStep
    \/ AcceptEnd
    \/ \E id \in ClientIds : RemoveClient(id)

ServerNext ==
    \/ ListenerNext
    \/ TickNext

BroadcastNext ==
    \/ \E key \in SubscribedKeys, id \in SubscriberIds : Subscribe(key, id)
    \/ \E key \in SubscribedKeys, id \in SubscriberIds : Unsubscribe(key, id)
    \/ \E id \in SubscriberIds : RemoveClient(id)
    \/ \E w \in Worlds, d \in Dimensions, p \in Positions : BroadcastNearbyWith(w, d, p)
    \/ \E w \in Worlds, d \in Dimensions, p \in Positions : BroadcastNearbyWithMut(w, d, p)

\* Server::bind reads the clock once: `last_keepalive_time: Instant::now()`.
KeepaliveInit ==
    /\ now = 0
    /\ last_keepalive_time = now

\* No HotbarSlot and no session yet.
HotbarIdle == hotbar = 0 /\ set_call = None
SessionIdle == join_args = None /\ join_game = None /\ earlier_join = None

Init == IndexInit /\ ServerInit /\ BroadcastInit /\ KeepaliveInit /\ HotbarIdle /\ SessionIdle

\* A registry as accept_new_players and remove_client leave it: ids in use in
\* any combination.
Registries ==
    UNION { [ ids -> [ uuid : {"u1"}, n : {1}, disconnected : {FALSE} ] ] :
            ids \in SUBSET SubscriberIds }

\* The broadcasts are checked from every such registry.
InitBroadcast ==
    /\ IndexInit
    /\ BroadcastInit
    /\ pending = None /\ closed = FALSE /\ sent = 0
    /\ new_players = << >> /\ player_count = 0
    /\ pc = "idle" /\ accepted = << >> /\ returned = << >>
    /\ liveAtCall = {} /\ created = << >>
    /\ clients \in Registries
    /\ KeepaliveInit /\ HotbarIdle /\ SessionIdle

(***************************************************************************)
(* VanillaSession::join and hash_seed.                                     *)
(* Unsigned integers wider than TLC's are kept as their 16-bit limbs, most *)
(* significant first: a u32 is << hi, lo >>, a u64 is << l3, l2, l1, l0 >>.*)
(***************************************************************************)
Limb == 65536

\* ---- 32-bit words of SHA-256 (FIPS 180-4), as << hi, lo >> ----
RECURSIVE Xor16(_, _)
Xor16(a, b) ==
    IF a = 0 THEN b
    ELSE IF b = 0 THEN a
    ELSE 2 * Xor16(a \div 2, b \div 2) + ((a + b) % 2)

RECURSIVE And16(_, _)
And16(a, b) ==
    IF a = 0 \/ b = 0 THEN 0
    ELSE 2 * And16(a \div 2, b \div 2) + ((a % 2) * (b % 2))

Xor32(a, b) == << Xor16(a[1], b[1]), Xor16(a[2], b[2]) >>
And32(a, b) == << And16(a[1], b[1]), And16(a[2], b[2]) >>
Not32(a) == << (Limb - 1) - a[1], (Limb - 1) - a[2] >>

\* wrapping_add
Add32(a, b) ==
    LET lo == a[2] + b[2]
    IN  << (a[1] + b[1] + (lo \div Limb)) % Limb, lo % Limb >>

\* rotate_right(n), 0 < n < 32
RotR(a, n) ==
    LET w == IF n >= 16 THEN << a[2], a[1] >> ELSE a
        k == n % 16
    IN  IF k = 0 THEN w
        ELSE << (w[1] \div 2^k) + (w[2] % 2^k) * 2^(16 - k),
                (w[2] \div 2^k) + (w[1] % 2^k) * 2^(16 - k) >>

\* x >> n, 0 < n < 16
ShR(a, n) ==
    << a[1] \div 2^n, (a[2] \div 2^n) + (a[1] % 2^n) * 2^(16 - n) >>

Ch(x, y, z) == Xor32(And32(x, y), And32(Not32(x), z))
Maj(x, y, z) == Xor32(Xor32(And32(x, y), And32(x, z)), And32(y, z))
BigSigma0(x) == Xor32(Xor32(RotR(x, 2), RotR(x, 13)), RotR(x, 22))
BigSigma1(x) == Xor32(Xor32(RotR(x, 6), RotR(x, 11)), RotR(x, 25))
SmallSigma0(x) == Xor32(Xor32(RotR(x, 7), RotR(x, 18)), ShR(x, 3))
SmallSigma1(x) == Xor32(Xor32(RotR(x, 17), RotR(x, 19)), ShR(x, 10))

\* The round constants and the initial hash value.
K256 ==
    << <<17034, 12184>>, <<28983, 17553>>, <<46528, 64463>>, <<59829, 56229>>,
       <<14678, 49755>>, <<23025, 4593>>, <<37439, 33444>>, <<43804, 24277>>,
       <<55303, 43672>>, <<4739, 23297>>, <<9265, 34238>>, <<21772, 32195>>,
       <<29374, 23924>>, <<32990, 45566>>, <<39900, 1703>>, <<49563, 61812>>,
       <<58523, 27073>>, <<61374, 18310>>, <<4033, 40390>>, <<9228, 41420>>,
       <<11753, 11375>>, <<19060, 33962>>, <<23728, 43484>>, <<30457, 35034>>,
       <<38974, 20818>>, <<43057, 50797>>, <<45059, 10184>>, <<48985, 32711>>,
       <<50912, 3059>>, <<54695, 37191>>, <<1738, 25425>>, <<5161, 10599>>,
       <<10167, 2693>>, <<11803, 8504>>, <<19756, 28156>>, <<21304, 3347>>,
       <<25866, 29524>>, <<30314, 2747>>, <<33218, 51502>>, <<37490, 11397>>,
       <<41663, 59553>>, <<43034, 26187>>, <<49739, 35696>>, <<51052, 20899>>,
       <<53650, 59417>>, <<54937, 1572>>, <<62478, 13701>>, <<4202, 41072>>,
       <<6564, 49430>>, <<7735, 27656>>, <<10056, 30540>>, <<13488, 48309>>,
       <<14620, 3251>>, <<20184, 43594>>, <<23452, 51791>>, <<26670, 28659>>,
       <<29839, 33518>>, <<30885, 25455>>, <<33992, 30740>>, <<36039, 520>>,
       <<37054, 65530>>, <<42064, 27883>>, <<48889, 41975>>, <<50801, 30962>> >>

H256 ==
    << <<27145, 58983>>, <<47975, 44677>>, <<15470, 62322>>, <<42319, 62778>>,
       <<20750, 21119>>, <<39685, 26764>>, <<8067, 55723>>, <<23520, 52505>> >>

\* A message shorter than 56 bytes padded to one 64-byte block: 0x80, zeros,
\* and the length in bits as a big-endian u64.
Pad(bytes) ==
    bytes \o << 128 >> \o [ i \in 1..(55 - Len(bytes)) |-> 0 ]
          \o << 0, 0, 0, 0, 0, 0, (8 * Len(bytes)) \div 256, (8 * Len(bytes)) % 256 >>

\* The sixteen big-endian words of a block.
BlockWords(block) ==
    [ i \in 1..16 |-> << block[4 * i - 3] * 256 + block[4 * i - 2],
                         block[4 * i - 1] * 256 + block[4 * i] >> ]

\* The message schedule: W[17..64] from W[1..16].
RECURSIVE Schedule(_)
Schedule(w) ==
    IF Len(w) = 64 THEN w
    ELSE LET t == Len(w) + 1
         IN  Schedule(Append(w, Add32(Add32(SmallSigma1(w[t - 2]), w[t - 7]),
                                      Add32(SmallSigma0(w[t - 15]), w[t - 16]))))

\* One round on the working variables v = << a, b, c, d, e, f, g, h >>.
Round(v, k, wt) ==
    LET t1 == Add32(Add32(Add32(v[8], BigSigma1(v[5])), Ch(v[5], v[6], v[7])),
                    Add32(k, wt))
        t2 == Add32(BigSigma0(v[1]), Maj(v[1], v[2], v[3]))
    IN  << Add32(t1, t2), v[1], v[2], v[3], Add32(v[4], t1), v[5], v[6], v[7] >>

\* The 64 rounds; vs lists the working variables before round 1, 2, ...
RECURSIVE Rounds(_, _)
Rounds(vs, w) ==
    IF Len(vs) = 65 THEN vs[65]
    ELSE LET t == Len(vs)
         IN  Rounds(Append(vs, Round(vs[t], K256[t], w[t])), w)

\* Sha256::new(), update(bytes), finalize(): the 32 bytes of the digest.
sha256(bytes) ==
    LET w == Schedule(BlockWords(Pad(bytes)))
        v == Rounds(<< H256 >>, w)
        h == [ i \in 1..8 |-> Add32(H256[i], v[i]) ]
    IN  [ j \in 1..32 |->
            LET word == h[(j - 1) \div 4 + 1]
                half == word[((j - 1) % 4) \div 2 + 1]
            IN  IF j % 2 = 1 THEN half \div 256 ELSE half % 256 ]

\* ---- u64 as four limbs ----
U64(l3, l2, l1, l0) == << l3, l2, l1, l0 >>

\* u64::to_be_bytes
to_be_bytes(x) ==
    [ j \in 1..8 |-> IF j % 2 = 1 THEN x[(j + 1) \div 2] \div 256
                                  ELSE x[(j + 1) \div 2] % 256 ]

\* u64::from_be_bytes
from_be_bytes(b) ==
    U64(b[1] * 256 + b[2], b[3] * 256 + b[4], b[5] * 256 + b[6], b[7] * 256 + b[8])

\* The seeds join is called with: 0, 66, u64::MAX.
Seeds == { U64(0, 0, 0, 0), U64(0, 0, 0, 66), U64(65535, 65535, 65535, 65535) }

\* The hasher, tabulated on the byte strings it is fed.
Sha256 == [ bytes \in { to_be_bytes(seed) : seed \in Seeds } |-> sha256(bytes) ]

\* Variant of hash_seed that hands the seed out as it is.
hash_seed_identity(seed) == seed

\* hash_seed: the first 8 bytes of SHA-256(seed.to_be_bytes()) as a big-endian u64.
hash_seed(seed) == from_be_bytes(SubSeq(Sha256[to_be_bytes(seed)], 1, 8))

\* ---- the casts of join ----
\* `max_players as i32`: the 32 bits of the u32 read as two's complement.
u32_as_i32(x) ==
    IF x[1] >= Limb \div 2 THEN (x[1] - Limb) * Limb + x[2]
    ELSE x[1] * Limb + x[2]

\* `view_distance as i32`: zero extension of the 8 bits.
u8_as_i32(x) == x % 256

NetworkIds == { -1, 10 }
Gamemodes == { "Survival", "Creative" }
\* u32 values on both sides of i32::MAX: 16, 2^31 - 1, 2^31, 2^32 - 1.
MaxPlayerCounts == { << 0, 16 >>, << 32767, 65535 >>, << 32768, 0 >>, << 65535, 65535 >> }
ViewDistances == { 10, 255 }
LevelGeneratorTypes == { "Default", "Flat", "Amplified" }

\* VanillaSession::join: the JoinGame packet (the two embedded NBT assets, which
\* do not depend on the arguments, are left out).
join(network_id, gamemode, seed, max_players, view_distance, level_type) ==
    [ entity_id             |-> network_id,
      is_hardcore           |-> FALSE,
      gamemode              |-> gamemode,
      previous_gamemode     |-> 255,
      world_names           |-> << "world" >>,
      world_name            |-> "world",
      hashed_seed           |-> hash_seed(seed),
      max_players           |-> u32_as_i32(max_players),
      view_distance         |-> u8_as_i32(view_distance),
      reduced_debug_info    |-> FALSE,
      enable_respawn_screen |-> TRUE,
      is_debug              |-> FALSE,
      is_flat               |-> level_type = "Flat" ]

Join(network_id, gamemode, seed, max_players, view_distance, level_type) ==
    /\ join_args' = Some([ network_id |-> network_id, gamemode |-> gamemode,
                           seed |-> seed, max_players |-> max_players,
                           view_distance |-> view_distance,
                           level_type |-> level_type ])
    /\ join_game' = Some(join(network_id, gamemode, seed, max_players,
                              view_distance, level_type))
    /\ earlier_join' = IF join_game = None THEN None
                       ELSE Some([ network_id |-> join_args[1].network_id,
                                   seed |-> join_args[1].seed,
                                   hashed_seed |-> join_game[1].hashed_seed ])
    /\ UNCHANGED << indexVars, listenerVars, serverVars, broadcastVars,
                    keepaliveVars, hotbarVars >>

InitSession ==
    /\ IndexInit /\ ServerInit /\ BroadcastInit /\ KeepaliveInit /\ HotbarIdle
    /\ SessionIdle

SessionNext ==
    \E network_id \in NetworkIds, gamemode \in Gamemodes, seed \in Seeds,
       max_players \in MaxPlayerCounts, view_distance \in ViewDistances,
       level_type \in LevelGeneratorTypes :
        Join(network_id, gamemode, seed, max_players, view_distance, level_type)

SpecSession == InitSession /\ [][SessionNext]_vars

(***************************************************************************)
(* HotbarSlot(usize)                                                       *)
(***************************************************************************)
SlotIds == 0..MaxSlotId

\* HotbarSlot::new(id): Self(id)
HotbarSlot_new(id) == id

\* HotbarSlot::get: self.0
HotbarSlot_get(slot) == slot

\* Variant of set that stores 8 for a larger id.
HotbarSlot_set_clamped(slot, id) ==
    [ slot |-> IF id > 8 THEN 8 ELSE id, result |-> "Ok" ]

\* HotbarSlot::set: bails out for id > 8, stores id otherwise.
HotbarSlot_set(slot, id) ==
    IF id > 8
    THEN [ slot |-> slot, result |-> "Err" ]
    ELSE [ slot |-> id, result |-> "Ok" ]

Set(id) ==
    /\ LET done == HotbarSlot_set(hotbar, id)
       IN  /\ hotbar' = done.slot
           /\ set_call' = Some([ id |-> id, before |-> hotbar, result |-> done.result ])
    /\ UNCHANGED << indexVars, listenerVars, serverVars, broadcastVars,
                    keepaliveVars, sessionVars >>

\* A slot as HotbarSlot::new builds it, from any id.
InitHotbar ==
    /\ IndexInit /\ ServerInit /\ BroadcastInit /\ KeepaliveInit /\ SessionIdle
    /\ hotbar \in { HotbarSlot_new(id) : id \in SlotIds }
    /\ set_call = None

HotbarNext == \E id \in SlotIds : Set(id)

SpecHotbar == InitHotbar /\ [][HotbarNext]_vars

\* The registry operations start from the full registry, with every id
\* subscribed to every key, so that removals leave stale subscriptions behind.
InitRegistry ==
    /\ IndexInit
    /\ chunk_subscriptions = [ key \in SubscribedKeys |-> SubscriberIds ]
    /\ last_broadcast = None /\ invoked = << >>
    /\ pending = None /\ closed = FALSE /\ sent = 0
    /\ new_players = << >> /\ player_count = 0
    /\ pc = "idle" /\ accepted = << >> /\ returned = << >>
    /\ liveAtCall = {} /\ created = << >>
    /\ clients = [ id \in SubscriberIds |->
                     [ uuid |-> "u1", n |-> 1, disconnected |-> FALSE ] ]
    /\ KeepaliveInit /\ HotbarIdle /\ SessionIdle

RegistryNext ==
    \/ \E id \in SubscriberIds : RemoveClient(id)
    \/ BroadcastWith
    \/ BroadcastKeepalive
    \/ ClockAdvance
    \/ \E w \in Worlds, d \in Dimensions, p \in Positions : BroadcastNearbyWith(w, d, p)
    \/ \E w \in Worlds, d \in Dimensions, p \in Positions : BroadcastNearbyWithMut(w, d, p)

SpecIndex == Init /\ [][IndexNext]_vars

SpecServer == Init /\ [][ServerNext]_vars

SpecBroadcast == InitBroadcast /\ [][BroadcastNext]_vars

SpecRegistry == InitRegistry /\ [][RegistryNext]_vars

\* The tick loop calls accept_new_players every tick and runs it to its end.
TickFairness ==
    /\ WF_vars(AcceptBegin)
    /\ WF_vars(AcceptStep)
    /\ WF_vars(AcceptEnd)

SpecServerFair == Init /\ [][ServerNext]_vars /\ TickFairness

(***************************************************************************)
(* Properties of the spatial index.                                        *)
(***************************************************************************)
Indexed(e, c) == e \in Range(entities_in_chunk(chunk_entities, c))

\* The entity is in the world and not scheduled for removal.
Live(e) == alive[e] = "live" /\ ~removeEvent[e]

\* C1: after a run of update_chunk_entities every live entity that has a
\* Position (and whose creation event has therefore been processed) is listed by
\* entities_in_chunk(c) for the chunk c of its current position and for no other.
C1_IndexedAtCurrentChunk ==
    phase = "maintained" =>
        \A e \in Entities :
            (Live(e) /\ hasPosition[e]) =>
                \A c \in Chunks : Indexed(e, c) <=> c = chunk(position[e])

\* An entity created in an earlier tick has crossed into another chunk and is
\* listed in its new chunk, while another entity has already been removed.
C1_Witness ==
    /\ phase = "maintained"
    /\ \E i \in DOMAIN events :
          LET ev == events[i]
          IN  /\ Live(ev.entity)
              /\ ev.new_chunk = chunk(position[ev.entity])
              /\ Indexed(ev.entity, ev.new_chunk)
              /\ ~Indexed(ev.entity, ev.old_chunk)
    /\ \E e \in Entities : alive[e] = "gone"

\* C2: no entity handle occurs more than once in the whole index, neither twice
\* in one bucket nor in two buckets.
C2_NoDuplicateHandle ==
    /\ \A c \in Chunks : \A i, j \in DOMAIN chunk_entities[c] :
           i # j => chunk_entities[c][i] # chunk_entities[c][j]
    /\ \A c, d \in Chunks :
           c # d => Range(chunk_entities[c]) \cap Range(chunk_entities[d]) = {}

\* Two entities share a bucket after one of them crossed into it.
C2_Witness ==
    /\ phase = "maintained"
    /\ \E i \in DOMAIN events :
          /\ Indexed(events[i].entity, events[i].new_chunk)
          /\ Len(chunk_entities[events[i].new_chunk]) >= 2

\* C5: remove_entity(e, c) leaves e out of entities_in_chunk(c), leaves every
\* other bucket as it was, and changes nothing at all when e was not in bucket c.
C5_RemoveEntityFrame ==
    \A e \in Entities, c \in Chunks :
        LET after == remove_entity(chunk_entities, e, c)
        IN  /\ e \notin Range(entities_in_chunk(after, c))
            /\ \A d \in Chunks \ {c} : after[d] = chunk_entities[d]
            /\ e \notin Range(chunk_entities[c]) => after = chunk_entities

\* A removal has just been processed while another entity stays indexed.
C5_Witness ==
    /\ phase = "maintained"
    /\ \E e \in Entities :
          /\ alive[e] = "live" /\ removeEvent[e] /\ ~createEvent[e]
          /\ chunkPosition[e] # None
          /\ \A c \in Chunks : ~Indexed(e, c)
    /\ \E e \in Entities, c \in Chunks : Indexed(e, c)

\* Two buckets hold the same entities, each as often as the other.
SameContents(v, w) ==
    /\ Len(v) = Len(w)
    /\ \A e \in Entities :
           Cardinality({ i \in DOMAIN v : v[i] = e }) =
           Cardinality({ i \in DOMAIN w : w[i] = e })

\* C6 as stated: update(e, Some(c), c) leaves the contents of every bucket as
\* they were, whether or not e was in bucket c.
C6_UpdateSameChunkNoOp ==
    \A e \in Entities, c \in Chunks :
        LET after == update(chunk_entities, e, Some(c), c)
        IN  \A d \in Chunks : SameContents(after[d], chunk_entities[d])

\* C6 amended: update(e, Some(c), c) leaves every other bucket as it was; bucket
\* c keeps its contents when e was in it, and gets e appended when it was not.
C6_UpdateSameChunk ==
    \A e \in Entities, c \in Chunks :
        LET after == update(chunk_entities, e, Some(c), c)
        IN  /\ \A d \in Chunks \ {c} : after[d] = chunk_entities[d]
            /\ IF e \in Range(chunk_entities[c])
               THEN SameContents(after[c], chunk_entities[c])
               ELSE after[c] = Append(chunk_entities[c], e)

\* A bucket holds two entities, the one update would be called for coming first,
\* and another bucket is empty.
C6_Witness ==
    \E c, d \in Chunks :
        /\ Len(chunk_entities[c]) >= 2
        /\ chunk_entities[d] = << >>
        /\ SameContents(update(chunk_entities, chunk_entities[c][1], Some(c), c)[c],
                        chunk_entities[c])
        /\ update(chunk_entities, chunk_entities[c][1], Some(d), d)[d]
              = << chunk_entities[c][1] >>

\* Entities whose removal event a maintenance run has processed.
RemovalProcessed ==
    { e \in Entities : \/ alive[e] = "gone"
                       \/ alive[e] = "live" /\ removeEvent[e] /\ phase = "maintained" }

\* C7: an entity whose removal event has been processed by the index maintenance
\* is in no bucket from the end of that run on, also when it was created or
\* crossed a chunk border in the tick of its removal.
C7_RemovedStaysAbsent ==
    \A e \in RemovalProcessed : \A c \in Chunks : ~Indexed(e, c)

\* One entity was created and removed in the same tick, another crossed a chunk
\* border in the tick of its removal; the run has handled both.
C7_Witness ==
    /\ phase = "maintained"
    /\ \E e1, e2 \in Entities :
          /\ e1 # e2
          /\ createEvent[e1] /\ removeEvent[e1] /\ chunkPosition[e1] # None
          /\ removeEvent[e2] /\ ~createEvent[e2]
          /\ \E i \in DOMAIN events : events[i].entity = e2

(***************************************************************************)
(* Properties of accept_new_players and of the channel.                    *)
(***************************************************************************)
\* Registered clients of that uuid that have not been told to disconnect.
NotDisconnected(u) ==
    { id \in DOMAIN clients : clients[id].uuid = u /\ ~clients[id].disconnected }

\* The last id of a returned Vec whose client has that uuid.
LastReturnedFor(u) ==
    LET at == { i \in DOMAIN returned : clients[returned[i]].uuid = u }
    IN  returned[CHOOSE i \in at : \A j \in at : j <= i]

\* What C4 promises of the state a call of accept_new_players returns in.
OneConnectionPerDrainedIdentity ==
    \A i \in DOMAIN returned : \A j \in DOMAIN returned :
        (j = i + 1 /\ clients[returned[i]].uuid = clients[returned[j]].uuid) =>
            /\ clients[returned[i]].disconnected
            /\ NotDisconnected(clients[returned[j]].uuid)
                  = { LastReturnedFor(clients[returned[j]].uuid) }

\* C4: when accept_new_players has drained two descriptors of one authentication
\* identity one after the other, it returns with exactly one connection of that
\* identity not disconnected, the latest, and with the earlier one disconnected.
C4_LastWriterWins ==
    [][ (pc = "draining" /\ pc' = "idle") => OneConnectionPerDrainedIdentity' ]_vars

\* C8: accept_new_players never waits for the Listener.  The tick context can
\* always take a step; and when nothing has been accepted and the channel is
\* empty, its step is the return of an empty Vec with the registry untouched.
C8_AcceptNeverWaits ==
    /\ [](ENABLED TickNext)
    /\ [][ (pc = "draining" /\ accepted = << >> /\ new_players = << >> /\ TickNext)
              => (pc' = "idle" /\ returned' = << >> /\ clients' = clients) ]_vars

\* A call found the channel empty and open, and returned the empty Vec while
\* clients were registered.
C8_Witness ==
    /\ pc = "idle"
    /\ returned = << >>
    /\ ~closed
    /\ new_players = << >>
    /\ Len(created) >= 1
    /\ DOMAIN clients # {}

Serials(chan) == [ i \in DOMAIN chan |-> chan[i].n ]

\* The ids the running call has collected, or the last call returned.
CallIds == IF pc = "draining" THEN accepted ELSE returned

\* C9: the descriptors enqueued so far are, in order and each once, those turned
\* into clients followed by those still in the channel; the ids a call collects
\* are pairwise distinct, were not registered when the call started, are exactly
\* the ids registered since, and each names the client made from its descriptor.
C9_EachDescriptorAcceptedOnce ==
    /\ created \o Serials(new_players) = [ i \in 1..sent |-> i ]
    /\ \A i, j \in DOMAIN CallIds : i # j => CallIds[i] # CallIds[j]
    /\ \A i \in DOMAIN CallIds :
           CallIds[i] \in DOMAIN clients =>
               clients[CallIds[i]].n = created[Len(created) - Len(CallIds) + i]
    /\ pc = "draining" =>
           /\ Range(accepted) \cap liveAtCall = {}
           /\ DOMAIN clients = liveAtCall \cup Range(accepted)

\* A call that started with a client registered has accepted two descriptors
\* while the Listener has enqueued a further one.
C9_Witness ==
    /\ pc = "draining"
    /\ liveAtCall # {}
    /\ Len(accepted) >= 2
    /\ new_players # << >>

\* The Listener waits: a send is in progress and the channel is full.
ListenerWaits == ~closed /\ pending # None /\ channel_full(new_players)

\* The channel never holds more than its capacity, and a full channel changes
\* only by the tick context taking its head, while the waiting send stays.
BoundedWithBackpressure ==
    /\ [](Len(new_players) <= Capacity)
    /\ [][ ListenerWaits =>
              /\ new_players' = new_players \/ new_players' = Tail(new_players)
              /\ pending' = pending \/ closed' ]_vars

\* C10 as stated: bounded channel with backpressure, and no state besides the
\* channel is touched by both contexts: a step of the Listener changes no other
\* field of the Server, a step of the tick context changes nothing of the Listener.
C10_ChannelIsOnlySharedState ==
    /\ BoundedWithBackpressure
    /\ [][ ListenerNext => UNCHANGED << player_count, clients, acceptVars >> ]_vars
    /\ [][ TickNext => UNCHANGED listenerVars ]_vars

\* C10 amended: bounded channel with backpressure; besides the channel, the only
\* field of the Server a step of the Listener changes is the player counter.
C10_ChannelAndPlayerCountShared ==
    /\ BoundedWithBackpressure
    /\ [][ ListenerNext => UNCHANGED << clients, acceptVars >> ]_vars
    /\ [][ TickNext => UNCHANGED listenerVars ]_vars

\* The channel holds four descriptors and the Listener waits with a fifth.
C10_Witness ==
    /\ ListenerWaits
    /\ Len(new_players) = Capacity
    /\ player_count = Capacity + 1

(***************************************************************************)
(* Properties of the scoped broadcasts.                                    *)
(***************************************************************************)
Count(calls, id) == Cardinality({ i \in DOMAIN calls : calls[i] = id })

\* The callback was invoked once for each registered subscriber of the key of
\* (world, dimension, chunk(pos)), and for nobody else.
OncePerLiveSubscriber(calls, world, dimension, pos) ==
    LET subscribed == subscriptions_for(chunk_subscriptions,
                          DimensionChunkPosition(world, dimension, chunk(pos)))
    IN  \A id \in ClientIds \cup SubscriberIds :
            Count(calls, id) = IF id \in subscribed /\ id \in DOMAIN clients
                               THEN 1 ELSE 0

\* C3: broadcast_nearby_with and broadcast_nearby_with_mut invoke the callback
\* exactly once for each client id that is subscribed to the chunk of the position
\* for that world and dimension and is registered, and for no other; a subscribed
\* id without a client is skipped; both variants visit the same clients.
C3_BroadcastScope ==
    /\ last_broadcast # None =>
           OncePerLiveSubscriber(invoked, last_broadcast[1].world,
                                 last_broadcast[1].dimension, last_broadcast[1].position)
    /\ \A w \in Worlds, d \in Dimensions, p \in Positions :
           LET shared == broadcast_nearby_with(clients, chunk_subscriptions, w, d, p)
               excl   == broadcast_nearby_with_mut(clients, chunk_subscriptions, w, d, p)
           IN  /\ OncePerLiveSubscriber(shared, w, d, p)
               /\ OncePerLiveSubscriber(excl, w, d, p)
               /\ Range(shared) = Range(excl)

\* A broadcast has just called back for one client, skipping a subscribed id
\* that has no client and leaving out a registered client that is not subscribed.
C3_Witness ==
    /\ last_broadcast # None
    /\ Len(invoked) = 1
    /\ LET b == last_broadcast[1]
           subscribed == subscriptions_for(chunk_subscriptions,
                             DimensionChunkPosition(b.world, b.dimension,
                                                    chunk(b.position)))
       IN  /\ \E id \in subscribed : id \notin DOMAIN clients
           /\ \E id \in DOMAIN clients : id \notin subscribed

(***************************************************************************)
(* Closing the channel; duplicate identities; cross events; progress.      *)
(***************************************************************************)
\* C11: once the Listener has closed the channel nothing more is enqueued, so
\* clients are made only from descriptors enqueued before; a call that finds the
\* closed channel empty returns the empty Vec; closing changes no registered
\* client, and after it a client leaves the registry only by remove_client.
C11_AfterClose ==
    /\ [][ closed => (closed' /\ sent' = sent
                      /\ \A i \in DOMAIN created' : created'[i] <= sent) ]_vars
    /\ [][ (closed /\ new_players = << >> /\ pc = "draining" /\ accepted = << >>
              /\ TickNext)
             => (pc' = "idle" /\ returned' = << >> /\ clients' = clients) ]_vars
    /\ [][ (~closed /\ closed') => clients' = clients ]_vars
    /\ [][ closed => \A id \in DOMAIN clients :
                        id \in DOMAIN clients' \/ RemoveClient(id) ]_vars

\* After the close a call drained what was left and a later call returned the
\* empty Vec; the clients made are still registered.
C11_Witness ==
    /\ closed
    /\ pc = "idle"
    /\ returned = << >>
    /\ new_players = << >>
    /\ sent >= 2
    /\ Len(created) = sent
    /\ Cardinality(DOMAIN clients) = sent

\* C17: as long as no client has been removed, every registered client that
\* shares its uuid with a client made later has been told to disconnect.
C17_AllOlderDisconnected ==
    Cardinality(DOMAIN clients) = Len(created) =>
        \A i, j \in DOMAIN clients :
            (clients[i].uuid = clients[j].uuid /\ clients[i].n < clients[j].n)
                => clients[i].disconnected

\* The entity has a cached ChunkPosition that differs from the chunk it is in.
Crossed(e) ==
    /\ alive[e] = "live" /\ hasPosition[e]
    /\ chunkPosition[e] # None
    /\ chunkPosition[e][1] # chunk(position[e])

\* Nothing for the maintenance to do for this entity.
Untouched(e) ==
    alive[e] = "live" /\ ~Crossed(e) /\ ~createEvent[e] /\ ~removeEvent[e]

\* C18: a run of update_chunk_entities emits one ChunkCrossEvent(cached chunk,
\* current chunk) for each entity whose cached chunk differs from its current
\* one and none for any other; an entity with an unchanged chunk and no event
\* stays where it is in the index, and the index is left as it was when all
\* entities are such; afterwards the cached chunk of every entity that had one
\* or was created this tick is the chunk of its position.
C18_CrossEvents ==
    [][ (phase = "sim" /\ phase' = "maintained") =>
          /\ \A e \in Entities :
                Cardinality({ i \in DOMAIN events' : events'[i].entity = e })
                   = IF Crossed(e) THEN 1 ELSE 0
          /\ \A i \in DOMAIN events' :
                /\ Some(events'[i].old_chunk) = chunkPosition[events'[i].entity]
                /\ events'[i].new_chunk = chunk(position[events'[i].entity])
          /\ \A e \in Entities : Untouched(e) =>
                \A c \in Chunks : e \in Range(chunk_entities'[c])
                                     <=> e \in Range(chunk_entities[c])
          /\ (\A e \in Entities : alive[e] = "live" => Untouched(e))
                => chunk_entities' = chunk_entities
          /\ \A e \in Entities :
                (/\ alive[e] = "live" /\ hasPosition[e]
                 /\ (chunkPosition[e] # None \/ createEvent[e]))
                   => chunkPosition'[e] = Some(chunk(position[e])) ]_vars

\* A run has emitted a cross event for one entity while another, indexed in an
\* earlier tick, had nothing to be done for it.
C18_Witness ==
    /\ phase = "maintained"
    /\ Len(events) = 1
    /\ \E e \in Entities :
          /\ Untouched(e)
          /\ events[1].entity # e
          /\ Indexed(e, chunk(position[e]))

\* The descriptors sent so far have all been received by accept_new_players.
AllSentReceived == \A n \in 1..sent : n \in Range(created)

\* C19: with the tick loop calling accept_new_players again and again, every
\* descriptor in the channel is eventually registered as a client (again and
\* again all the descriptors sent so far have been received, and a descriptor
\* is registered in the step that receives it), and a Listener that waits on
\* the full channel eventually finds room in it.
C19_Progress ==
    /\ []<>AllSentReceived
    /\ [][ \A n \in Range(created') \ Range(created) :
              \E id \in DOMAIN clients' : clients'[id].n = n ]_vars
    /\ ListenerWaits ~> ~channel_full(new_players)

\* The descriptor that had to wait for room in the channel has been registered.
C19_Witness ==
    /\ sent = Capacity + 1
    /\ new_players = << >>
    /\ \E id \in DOMAIN clients : clients[id].n = Capacity + 1

(***************************************************************************)
(* remove_client, broadcast_with and broadcast_keepalive.                  *)
(***************************************************************************)
\* The ids remove_client has taken out of the full registry.
Removed == SubscriberIds \ DOMAIN clients

\* C12: remove_client(id) takes the client registered under id out of the
\* registry and leaves every other client as it is; with no client under id
\* it changes nothing, and it can always be called; afterwards no broadcast
\* operation hands that client to its callback.
C12_RemoveClient ==
    /\ [][ \A id \in SubscriberIds : RemoveClient(id) =>
              /\ DOMAIN clients' = DOMAIN clients \ {id}
              /\ \A other \in DOMAIN clients' : clients'[other] = clients[other]
              /\ (id \notin DOMAIN clients => clients' = clients) ]_vars
    /\ [](\A id \in SubscriberIds : ENABLED RemoveClient(id))
    /\ [](\A i \in DOMAIN invoked : invoked[i] \notin Removed)

\* A client has been removed while still subscribed, and a nearby broadcast on
\* its key has called back for the clients that are left.
C12_Witness ==
    /\ Removed # {}
    /\ last_broadcast # None
    /\ "mut" \in DOMAIN last_broadcast[1]
    /\ invoked # << >>
    /\ \E id \in Removed :
          id \in subscriptions_for(chunk_subscriptions,
                                   DimensionChunkPosition(last_broadcast[1].world,
                                                          last_broadcast[1].dimension,
                                                          chunk(last_broadcast[1].position)))

\* The operation that has just run, if it is broadcast_with or broadcast_keepalive.
LastOp ==
    IF last_broadcast # None /\ "op" \in DOMAIN last_broadcast[1]
    THEN last_broadcast[1].op ELSE "none"

\* The callback was invoked once for each registered client and for nothing else.
OncePerClient ==
    /\ \A id \in DOMAIN clients : Count(invoked, id) = 1
    /\ \A i \in DOMAIN invoked : invoked[i] \in DOMAIN clients

\* C13: broadcast_with calls back exactly once for each registered client and
\* for nothing else; broadcast_keepalive does the same with the keep-alive
\* action and then sets last_keepalive_time to the time of the call; no other
\* operation changes last_keepalive_time, and it never decreases.
C13_Keepalive ==
    /\ [](LastOp \in { "broadcast_with", "broadcast_keepalive" } => OncePerClient)
    /\ [](LastOp = "broadcast_keepalive" => last_keepalive_time = last_broadcast[1].at)
    /\ [][ last_keepalive_time' # last_keepalive_time =>
              /\ LastOp' = "broadcast_keepalive"
              /\ last_keepalive_time' = now
              /\ last_keepalive_time' > last_keepalive_time ]_vars
    /\ [][ last_broadcast' # last_broadcast /\ LastOp' = "broadcast_keepalive" =>
              last_keepalive_time' = now ]_vars

\* A keep-alive broadcast some time after bind has reached two clients or more
\* and stamped the time of the call.
C13_Witness ==
    /\ LastOp = "broadcast_keepalive"
    /\ now > 0
    /\ last_keepalive_time = now
    /\ Len(invoked) >= 2

(***************************************************************************)
(* HotbarSlot                                                              *)
(***************************************************************************)
\* C14: set(id) with id above 8 returns an error and leaves the stored slot
\* as it was; with id from 0 to 8 it returns Ok and get() returns id.
C14_SetChecksId ==
    set_call # None =>
        LET call == set_call[1]
        IN  IF call.id > 8
            THEN call.result = "Err" /\ HotbarSlot_get(hotbar) = call.before
            ELSE call.result = "Ok" /\ HotbarSlot_get(hotbar) = call.id

\* set(9) has failed on a slot that held 3, after an earlier set(3) went through.
C14_Witness ==
    /\ set_call # None
    /\ set_call[1].id = 9
    /\ set_call[1].result = "Err"
    /\ set_call[1].before = 3
    /\ hotbar = 3

\* C20: get() of a HotbarSlot built by new and changed by set calls never
\* returns more than 8.
C20_GetAtMostEight == HotbarSlot_get(hotbar) <= 8

(***************************************************************************)
(* The join message                                                        *)
(***************************************************************************)
\* The i32 holds the number the u32 stands for.
SameNumber(i, u) == i >= 0 /\ i \div Limb = u[1] /\ i % Limb = u[2]

\* C15: the join message carries the values given to join: entity_id is the
\* network id, gamemode the game mode, max_players the declared number (for
\* every u32), view_distance the view distance, previous_gamemode is 255, and
\* is_flat holds exactly for the Flat level type.
C15_JoinCarriesInputs ==
    join_game # None =>
        LET args == join_args[1]
            packet == join_game[1]
        IN  /\ packet.entity_id = args.network_id
            /\ packet.gamemode = args.gamemode
            /\ SameNumber(packet.max_players, args.max_players)
            /\ packet.view_distance = args.view_distance
            /\ packet.previous_gamemode = 255
            /\ packet.is_flat <=> args.level_type = "Flat"

IsU64(x) == x \in [ 1..4 -> 0..(Limb - 1) ]

\* C16: two calls with the same seed put the same hashed seed in the message,
\* whatever else has changed in between; every seed gets a u64; and the hashed
\* seed for seed 66 is not 66.
C16_HashedSeed ==
    join_game # None =>
        /\ IsU64(join_game[1].hashed_seed)
        /\ (earlier_join # None /\ earlier_join[1].seed = join_args[1].seed)
              => join_game[1].hashed_seed = earlier_join[1].hashed_seed
        /\ join_args[1].seed = U64(0, 0, 0, 66)
              => join_game[1].hashed_seed # U64(0, 0, 0, 66)

\* Seed 66 was hashed in two calls for different network ids, to the first
\* eight bytes 21 a3 6d a5 aa a0 c6 3b of its SHA-256 digest.
C16_Witness ==
    /\ join_game # None /\ earlier_join # None
    /\ join_args[1].seed = U64(0, 0, 0, 66)
    /\ earlier_join[1].seed = U64(0, 0, 0, 66)
    /\ earlier_join[1].network_id # join_args[1].network_id
    /\ join_game[1].hashed_seed = U64(8611, 28069, 43680, 50747)

====
